---- MODULE Spec2Model ----
(***************************************************************************)
(* Model of the CFD Flow Visualizer calculation pipeline:                  *)
(*   services/cfdCalculator.ts  extractFrames, calculateVectorField,       *)
(*                              generateOpenFoamFiles,                     *)
(*                              calculateFlowAndGenerateFiles              *)
(*   App.tsx (part_000)         handleVideoLoad, handleCalculation and the *)
(*                              App state                                  *)
(*   components/VideoTrimmer    handleCalculateClick                       *)
(*                              ROILayer, trim sliders                     *)
(*   components/VectorFieldDisplay  the effect, img.onload, drawLegend     *)
(*   components/ResultsDisplay  density and scale sliders                  *)
(*                                                                         *)
(* Time is counted in units of 1/300 s, so that the sampling interval      *)
(* 1/30 s is 10 units and the sliders' step 0.01 s is 3 units.             *)
(* Numbers (velocity components) are binary floating point values with a   *)
(* significand of Precision bits, rounded to nearest, ties to even, as     *)
(* IEEE-754 arithmetic does; a value is held as an integer count of the    *)
(* format's smallest quantum.                                              *)
(***************************************************************************)
EXTENDS Integers, Sequences, FiniteSets, TLC

\* ---------------------------------------------------------------- bounds
MaxDuration == 33
MaxFrames == 5
MaxGridWidth == 2
MaxGridHeight == 2
Precision == 3
MaxRenders == 3
GeomPrecision == 6
TimePrecision == 9

\* ----------------------------------------------------- program constants
SampleInterval == 10
SliderStep == 3
MAX_CLIP_DURATION_S == 1500

\* ------------------------------------------------------------ arithmetic
Abs(x) == IF x < 0 THEN -x ELSE x

Max(a, b) == IF a > b THEN a ELSE b

Min(a, b) == IF a < b THEN a ELSE b

RECURSIVE BitLen(_)
BitLen(n) == IF n = 0 THEN 0 ELSE 1 + BitLen(n \div 2)

RECURSIVE Pow2(_)
Pow2(k) == IF k = 0 THEN 1 ELSE 2 * Pow2(k - 1)

\* The distance between neighbouring floating point values around num/den
\* (num >= 0, den > 0) in a format of p significant bits: one quantum up to
\* p bits.
SpacingP(num, den, p) == Pow2(Max(0, BitLen(num \div den) - p))

Spacing(num, den) == SpacingP(num, den, Precision)

\* num/den (num >= 0) rounded to the nearest multiple of s, ties to even.
RoundToSpacing(num, den, s) ==
    LET q == num \div (den * s)
        r == num - q * den * s
    IN  IF 2 * r < den * s THEN q * s
        ELSE IF 2 * r > den * s THEN (q + 1) * s
        ELSE IF q % 2 = 0 THEN q * s ELSE (q + 1) * s

\* The floating point value nearest to the rational num/den (den > 0).
FRound(num, den) ==
    IF num < 0 THEN -RoundToSpacing(-num, den, Spacing(-num, den))
    ELSE RoundToSpacing(num, den, Spacing(num, den))

\* The same for times, which are held in units of 1/300 s with a significand
\* of TimePrecision bits (MAX_CLIP_DURATION_S is exact in it).
TRound(num) ==
    IF num < 0 THEN -RoundToSpacing(-num, 1, SpacingP(-num, 1, TimePrecision))
    ELSE RoundToSpacing(num, 1, SpacingP(num, 1, TimePrecision))

TAdd(a, b) == TRound(a + b)

TSub(a, b) == TRound(a - b)

\* a + b and a / n as the JavaScript number operators compute them.
FAdd(a, b) == FRound(a + b, 1)

\* (only 0/0 can divide by zero here: no fields, so the sums are still 0)
FDiv(a, n) == IF n = 0 THEN [nan |-> TRUE] ELSE FRound(a, n)

\* ------------------------------------------------------------------ data
VARIABLES
    isLoading, statusMessage, results, error,
    videoSrc, duration, startTime, endTime, roi, gridWidth, gridHeight,
    isDrawing, startPos, currentRect,
    currentTime, seeking, stalled, listeners,
    pc, req, pass, frames, previewFrame, extracted, vectorFields,
    estCalls, replies, outstanding, thrown, statusLog,
    GRID_WIDTH, vectorDensity, arrowScale, images, canvas, renderCount,
    mapped, sampled, streamline

vars == << isLoading, statusMessage, results, error,
           videoSrc, duration, startTime, endTime, roi, gridWidth, gridHeight,
           isDrawing, startPos, currentRect,
           currentTime, seeking, stalled, listeners,
           pc, req, pass, frames, previewFrame, extracted, vectorFields,
           estCalls, replies, outstanding, thrown, statusLog,
           GRID_WIDTH, vectorDensity, arrowScale, images, canvas, renderCount,
           mapped, sampled, streamline >>

appVars == << isLoading, statusMessage, results, error >>

\* VideoTrimmer with its src prop (the App's videoSrc) and its ROILayer
trimVars == << videoSrc, duration, startTime, endTime, roi, gridWidth, gridHeight,
               isDrawing, startPos, currentRect >>

videoVars == << currentTime, seeking, stalled, listeners >>

calcVars == << pc, req, pass, frames, previewFrame, extracted, vectorFields >>

obsVars == << estCalls, replies, outstanding, thrown, statusLog >>

\* ResultsDisplay and VectorFieldDisplay: the constant of the build, the two
\* sliders, the images whose load is pending, what the canvas shows, and the
\* number of effects run since the component was mounted.
viewVars == << GRID_WIDTH, vectorDensity, arrowScale, images, canvas, renderCount,
              mapped, sampled, streamline >>

\* null and undefined of the program
Null == [null |-> TRUE]

Undefined == [undefined |-> TRUE]


\* roi: ROI | null.  The fields are normalized fractions, held in hundredths.
NoRoi == Null

SomeRoi == [x |-> 25, y |-> 10, width |-> 50, height |-> 60]

Rois == {NoRoi, SomeRoi}

\* The positions a range input with min 0, max d and step 0.01 can take.
SliderPositions(d) == {t \in 0..d : t % SliderStep = 0}

\* Error messages (Error.message) of the program.
MsgCanvas == [text |-> "Canvas context not available"]

MsgNotEnoughFrames ==
    [text |-> "Not enough frames extracted to perform analysis. Please select a longer clip."]

MsgMalformed(expected, got) ==
    [text |-> "AI returned an incorrect number of vectors.",
     expected |-> expected, got |-> got]

\* What the estimation service can fail with: a network or service error of
\* the SDK call, or a reply that is not the JSON asked for.
EstimatorErrors == {[text |-> "network error"], [text |-> "Unexpected token in JSON"]}

\* Status messages (the argument of updateStatus)
StExtracting == [text |-> "Extracting frames from video..."]

\* The frame reported before it is pushed
StExtractedBeforePush(k) == [text |-> "Extracted frame k...", k |-> k - 1]

StExtracted(k) == [text |-> "Extracted frame k...", k |-> k]

StAnalyzing(n) == [text |-> "Analyzing n frame pairs with AI...", n |-> n]

StPair(i, n) == [text |-> "Analyzing frame pair i/n...", i |-> i, n |-> n]

StAveraging == [text |-> "Averaging vector fields..."]

StGenerating == [text |-> "Generating OpenFOAM files..."]

StFinalizing == [text |-> "Finalizing results..."]

StEmpty == [text |-> ""]

\* A media element whose position stops one unit short of the end
ClampSeekShort(t, d) == Max(0, Min(t, d - 1))

\* ------------------------------------------------- the video element
\* HTMLMediaElement seeking: a new playback position beyond the end of the
\* media becomes the end, one before the earliest position becomes it.
ClampSeek(t, d) == Max(0, Min(t, d))

\* ------------------------------------------------------ extractFrames
\* Source rectangle of drawImage (in hundredths of the video's size)
SourceRect(r) ==
    IF r = Null
    THEN [sx |-> 0, sy |-> 0, sWidth |-> 100, sHeight |-> 100]
    ELSE [sx |-> r.x, sy |-> r.y, sWidth |-> r.width, sHeight |-> r.height]

\* frameData: the still image seen at position t, cut to the source rectangle
FrameData(t, r) == [t |-> t, rect |-> SourceRect(r)]

\* The endTime and roi arguments of the two extractFrames calls
PassEnd(p, rq) == IF p = "preview" THEN rq.startTime + SampleInterval ELSE rq.endTime

PassRoi(p, rq) == IF p = "preview" THEN Null ELSE rq.roi

\* `data:image/jpeg;base64,${previewFrameData[0]}`
PreviewUrl(previewFrameData) ==
    [dataUrl |-> IF Len(previewFrameData) >= 1 THEN previewFrameData[1] ELSE Undefined]

\* ------------------------------------------------ calculateVectorField
\* The flat arrays the estimation service may reply with: len vectors, all
\* the same (pattern 1), all different (pattern 2), or all {u: 1, v: 0}
\* (pattern 3; the value 1 is 16 quanta).
PatternVector(p, k) ==
    IF p = 1 THEN [u |-> FRound(96, 1), v |-> FRound(16, 1)]
    ELSE IF p = 2 THEN [u |-> FRound(16 * k, 1), v |-> FRound(-16 * k, 1)]
    ELSE [u |-> FRound(16, 1), v |-> 0]

Patterns == {1, 2, 3}

FlatVectors(p, len) == [k \in 1..len |-> PatternVector(p, k)]

ReplyLengths(w, h) == {n \in {w * h - 1, w * h, w * h + 1} : n >= 0}

\* Array.prototype.slice(from, to) with 0 <= from <= to
Slice(arr, from, to) == [k \in 1..Max(0, Min(to, Len(arr)) - from) |-> arr[from + k]]

\* The reply read column by column
ReshapeColumnMajor(flat, w, h) == [i \in 1..h |-> [k \in 1..w |-> flat[(k - 1) * h + i]]]

\* grid.push(flatVectors.slice(i * gridWidth, (i + 1) * gridWidth))
Reshape(flat, w, h) == [i \in 1..h |-> Slice(flat, (i - 1) * w, i * w)]

\* The length check rejecting only a reply that is too short
VectorFieldOfShortOnly(flat, w, h) ==
    IF Len(flat) < w * h
    THEN [ok |-> FALSE, message |-> MsgMalformed(w * h, Len(flat))]
    ELSE [ok |-> TRUE, grid |-> Reshape(flat, w, h)]

\* What calculateVectorField makes of a reply: the grid, or the error thrown.
VectorFieldOf(flat, w, h) ==
    IF Len(flat) # w * h
    THEN [ok |-> FALSE, message |-> MsgMalformed(w * h, Len(flat))]
    ELSE [ok |-> TRUE, grid |-> Reshape(flat, w, h)]

\* ----------------------------------------------------------- averaging
\* Array(gridHeight).fill(0).map(() => Array(gridWidth).fill({ u: 0, v: 0 }))
ZeroField(w, h) == [y \in 1..h |-> [x \in 1..w |-> [u |-> 0, v |-> 0]]]

\* One pass of the accumulation loop over a per-pair field
AddField(acc, field, w, h) ==
    [y \in 1..h |-> [x \in 1..w |->
        [u |-> FAdd(acc[y][x].u, field[y][x].u),
         v |-> FAdd(acc[y][x].v, field[y][x].v)]]]

RECURSIVE SumFields(_, _, _, _)
SumFields(fields, k, w, h) ==
    IF k = 0 THEN ZeroField(w, h)
    ELSE AddField(SumFields(fields, k - 1, w, h), fields[k], w, h)

\* The division loop dividing by the number of frames
DivideFieldByFrames(acc, n, w, h) ==
    [y \in 1..h |-> [x \in 1..w |->
        [u |-> FDiv(acc[y][x].u, n + 1), v |-> FDiv(acc[y][x].v, n + 1)]]]

\* The division loop
DivideField(acc, n, w, h) ==
    [y \in 1..h |-> [x \in 1..w |->
        [u |-> FDiv(acc[y][x].u, n), v |-> FDiv(acc[y][x].v, n)]]]

\* The accumulation without the division
AveragedFieldSumOnly(fields, w, h) == SumFields(fields, Len(fields), w, h)

AveragedField(fields, w, h) ==
    DivideField(SumFields(fields, Len(fields), w, h), Len(fields), w, h)

\* ------------------------------------------------ generateOpenFoamFiles
RECURSIVE VectorList(_, _, _, _)
VectorList(field, w, h, k) ==
    IF k = 0 THEN << >>
    ELSE Append(VectorList(field, w, h, k - 1),
                field[((k - 1) \div w) + 1][((k - 1) % w) + 1])

OpenFoamFiles(field, clipDuration, w, h) ==
    [U |-> [numPoints |-> w * h, vectorList |-> VectorList(field, w, h, w * h)],
     controlDict |-> [endTime |-> clipDuration]]

\* ------------------------------------------- calculateFlowAndGenerateFiles
\* The check letting a single frame through
NotEnoughFramesBelowOne(fs) == Len(fs) < 1

\* if (frames.length < 2) throw ...
NotEnoughFrames(fs) == Len(fs) < 2

\* The loop comparing every frame with the first one
EstimateCallFromFirst(fs, i, rq) ==
    [i |-> i, frame1 |-> fs[1], frame2 |-> fs[i + 2],
     gridWidth |-> rq.gridWidth, gridHeight |-> rq.gridHeight]

\* calculateVectorField(frames[i], frames[i + 1], gridWidth, gridHeight),
\* i counted from 0 as in the loop
EstimateCall(fs, i, rq) ==
    [i |-> i, frame1 |-> fs[i + 1], frame2 |-> fs[i + 2],
     gridWidth |-> rq.gridWidth, gridHeight |-> rq.gridHeight]

\* The value returned after the loop
CalculationResult(fields, rq, preview) ==
    LET averagedField == AveragedField(fields, rq.gridWidth, rq.gridHeight)
    IN  [vectorField |-> averagedField,
         openFoamFiles |-> OpenFoamFiles(averagedField, rq.endTime - rq.startTime,
                                         rq.gridWidth, rq.gridHeight),
         previewFrame |-> preview]

\* -------------------------------------------------- App.handleCalculation
\* The catch clause taking every thrown value for a non-Error
CaughtMessageUnknown(message) ==
    [text |-> "An unknown error occurred during calculation."]

\* e instanceof Error ? e.message : '...' (everything thrown here is an Error)
CaughtMessage(message) == message

\* The catch clause without the finally clause after it
RejectedWithoutFinally(message) ==
    /\ error' = message
    /\ isLoading' = TRUE
    /\ statusMessage' = statusMessage
    /\ pc' = "rejected"

\* catch (e) { setError(...) } finally { setIsLoading(false); setStatusMessage('') }
Rejected(message) ==
    /\ error' = CaughtMessage(message)
    /\ isLoading' = FALSE
    /\ statusMessage' = StEmpty
    /\ pc' = "rejected"

\* setResults(calculatedResults); finally { ... }
Resolved(calculatedResults) ==
    /\ results' = calculatedResults
    /\ isLoading' = FALSE
    /\ statusMessage' = StEmpty
    /\ pc' = "resolved"

\* The for loop of calculateFlowAndGenerateFiles at i = fields.length, with
\* fs the extracted frames: the next pair goes to the estimator, or, after the
\* last pair, the fields are averaged, the files generated, the result returned.
ContinueLoop(fs, fields, log, out) ==
    LET i == Len(fields)
        n == Len(fs) - 1
    IN  IF i < n
        THEN /\ statusLog' = Append(log, StPair(i + 1, n))
             /\ statusMessage' = StPair(i + 1, n)
             /\ estCalls' = Append(estCalls, EstimateCall(fs, i, req))
             /\ outstanding' = out + 1
             /\ pc' = "estimating"
             /\ UNCHANGED << isLoading, results, error >>
        ELSE /\ statusLog' = log \o << StAveraging, StGenerating, StFinalizing >>
             /\ Resolved(CalculationResult(fields, req, previewFrame))
             /\ outstanding' = out
             /\ UNCHANGED << error, estCalls >>

\* ------------------------------------------- App and VectorFieldDisplay
\* The values of GRID_WIDTH considered (the file of constants is not part of
\* the sources at hand).
GridWidthBuilds == {10, 20}

\* new Image() with img.src = backgroundImage and the onload handler closed
\* over the props of the render that created it
ImageOf(n, calculated, density, scale) ==
    [n |-> n, vectorField |-> calculated.vectorField,
     backgroundImage |-> calculated.previewFrame,
     density |-> density, scale |-> scale]

\* {results && <ResultsDisplay ... />}: when results is set the display is
\* mounted and the effect of VectorFieldDisplay runs for the first time; when
\* results is reset the display, with its canvas, is gone.
ViewFollows ==
    /\ IF results' = results
       THEN UNCHANGED << images, canvas, renderCount >>
       ELSE IF results' = Null
       THEN images' = {} /\ canvas' = Null /\ renderCount' = 0
       ELSE /\ images' = {ImageOf(1, results', vectorDensity, arrowScale)}
            /\ canvas' = Null
            /\ renderCount' = 1
    /\ UNCHANGED << GRID_WIDTH, vectorDensity, arrowScale, mapped, sampled, streamline >>

\* const clipDuration = endTime - startTime
clipDuration == TSub(endTime, startTime)

isClipValid == clipDuration > 0 /\ clipDuration <= MAX_CLIP_DURATION_S

\* setError(`Clip duration must be between 0 and ${MAX_CLIP_DURATION_S} seconds.`)
MsgInvalidClip ==
    [text |-> "Clip duration must be between 0 and MAX_CLIP_DURATION_S seconds."]

\* handleCalculation, up to its first suspension.  A clip duration outside
\* (0, MAX_CLIP_DURATION_S] sets the error and returns; otherwise the state
\* resets, then comes the synchronous start of calculateFlowAndGenerateFiles
\* and of the preview extraction (canvas context, seek to startTime, listener
\* registered).
handleCalculation(s, e) ==
    IF TSub(e, s) <= 0 \/ TSub(e, s) > MAX_CLIP_DURATION_S
    THEN /\ error' = MsgInvalidClip
         /\ UNCHANGED << isLoading, statusMessage, results >>
         /\ UNCHANGED << trimVars, videoVars, calcVars, obsVars, viewVars >>
    ELSE
    /\ req' = [src |-> videoSrc, startTime |-> s, endTime |-> e, roi |-> roi,
               gridWidth |-> gridWidth, gridHeight |-> gridHeight]
    /\ results' = Null
    /\ frames' = << >>
    /\ pass' = "preview"
    /\ previewFrame' = Null
    /\ extracted' = Null
    /\ vectorFields' = << >>
    /\ estCalls' = << >>
    /\ replies' = << >>
    /\ outstanding' = 0
    /\ thrown' = Null
    /\ statusLog' = << >>
    /\ \E ctxAvailable \in BOOLEAN :
          IF ctxAvailable
          THEN /\ isLoading' = TRUE
               /\ error' = Null
               /\ UNCHANGED statusMessage
               /\ currentTime' = s
               /\ seeking' = TRUE
               /\ listeners' = listeners \cup {"preview"}
               /\ UNCHANGED stalled
               /\ pc' = "extracting"
          ELSE /\ Rejected(MsgCanvas)
               /\ UNCHANGED videoVars
    /\ UNCHANGED trimVars
    /\ ViewFollows

\* The Calculate button without its isCalculating condition
handleCalculateClickWhileCalculating ==
    /\ isClipValid
    /\ handleCalculation(startTime, endTime)

\* VideoTrimmer: the Calculate button (disabled={!isClipValid || isCalculating})
handleCalculateClick ==
    /\ ~isLoading
    /\ isClipValid
    /\ handleCalculation(startTime, endTime)

\* ------------------------------------------------ extractFrames.onSeeked
\* The position the element reports once the seek has completed
SeekedPosition == ClampSeek(currentTime, duration)

\* A 'seeked' event with the position below the pass's endTime: capture the
\* frame, report it, and seek 1/30 further.  The code has no limit on the
\* number of frames; MaxFrames only cuts off a pass that would never end.
SeekedCapture ==
    /\ seeking /\ ~stalled
    /\ pc = "extracting"
    /\ pass \in listeners
    /\ ~(SeekedPosition >= PassEnd(pass, req))
    /\ Len(frames) < MaxFrames
    /\ frames' = Append(frames, FrameData(SeekedPosition, PassRoi(pass, req)))
    /\ IF pass = "roi"
       THEN /\ statusLog' = Append(statusLog, StExtracted(Len(frames')))
            /\ statusMessage' = StExtracted(Len(frames'))
       ELSE UNCHANGED << statusLog, statusMessage >>
    /\ currentTime' = SeekedPosition + SampleInterval
    /\ UNCHANGED << seeking, stalled, listeners >>
    /\ UNCHANGED << isLoading, results, error >>
    /\ UNCHANGED << pc, req, pass, previewFrame, extracted, vectorFields >>
    /\ UNCHANGED << estCalls, replies, outstanding, thrown >>
    /\ UNCHANGED trimVars
    /\ UNCHANGED viewVars

\* The end of the preview pass without its removeEventListener
SeekedPreviewDoneListenerKept ==
    /\ seeking /\ ~stalled
    /\ pc = "extracting"
    /\ pass = "preview" /\ pass \in listeners
    /\ SeekedPosition >= PassEnd(pass, req)
    /\ previewFrame' = PreviewUrl(frames)
    /\ frames' = << >>
    /\ pass' = "roi"
    /\ statusLog' = Append(statusLog, StExtracting)
    /\ \E ctxAvailable \in BOOLEAN :
          IF ctxAvailable
          THEN /\ statusMessage' = StExtracting
               /\ currentTime' = req.startTime
               /\ seeking' = TRUE
               /\ listeners' = listeners \cup {"roi"}
               /\ UNCHANGED << pc, isLoading, error >>
          ELSE /\ Rejected(MsgCanvas)
               /\ currentTime' = SeekedPosition
               /\ seeking' = FALSE
               /\ listeners' = listeners
    /\ UNCHANGED << results, stalled, req, extracted, vectorFields >>
    /\ UNCHANGED << estCalls, replies, outstanding, thrown >>
    /\ UNCHANGED trimVars
    /\ UNCHANGED viewVars

\* A 'seeked' event that ends the preview pass: the listener is removed, the
\* promise resolves, the preview URL is built and the ROI pass starts.
SeekedPreviewDone ==
    /\ seeking /\ ~stalled
    /\ pc = "extracting"
    /\ pass = "preview" /\ pass \in listeners
    /\ SeekedPosition >= PassEnd(pass, req)
    /\ previewFrame' = PreviewUrl(frames)
    /\ frames' = << >>
    /\ pass' = "roi"
    /\ statusLog' = Append(statusLog, StExtracting)
    /\ \E ctxAvailable \in BOOLEAN :
          IF ctxAvailable
          THEN /\ statusMessage' = StExtracting
               /\ currentTime' = req.startTime
               /\ seeking' = TRUE
               /\ listeners' = (listeners \ {"preview"}) \cup {"roi"}
               /\ UNCHANGED << pc, isLoading, error >>
          ELSE /\ Rejected(MsgCanvas)
               /\ currentTime' = SeekedPosition
               /\ seeking' = FALSE
               /\ listeners' = listeners \ {"preview"}
    /\ UNCHANGED << results, stalled, req, extracted, vectorFields >>
    /\ UNCHANGED << estCalls, replies, outstanding, thrown >>
    /\ UNCHANGED trimVars
    /\ UNCHANGED viewVars

\* A 'seeked' event that ends the ROI pass: the listener is removed, the
\* promise resolves, the frame count is checked and the loop over the pairs
\* begins.
SeekedFramesDone ==
    /\ seeking /\ ~stalled
    /\ pc = "extracting"
    /\ pass = "roi" /\ pass \in listeners
    /\ SeekedPosition >= PassEnd(pass, req)
    /\ currentTime' = SeekedPosition
    /\ seeking' = FALSE
    /\ listeners' = listeners \ {"roi"}
    /\ extracted' = [frames |-> frames]
    /\ IF NotEnoughFrames(frames)
       THEN /\ Rejected(MsgNotEnoughFrames)
            /\ UNCHANGED << results, statusLog, estCalls, outstanding >>
       ELSE ContinueLoop(frames, << >>,
                         Append(statusLog, StAnalyzing(Len(frames) - 1)), outstanding)
    /\ UNCHANGED << stalled, req, pass, frames, previewFrame, vectorFields >>
    /\ UNCHANGED << replies, thrown >>
    /\ UNCHANGED trimVars
    /\ ViewFollows

\* The frame source never signals the completion of the pending seek.
SeekStalls ==
    /\ seeking /\ ~stalled
    /\ stalled' = TRUE
    /\ UNCHANGED << currentTime, seeking, listeners >>
    /\ UNCHANGED << appVars, trimVars, calcVars, obsVars >>
    /\ UNCHANGED viewVars

\* ------------------------------------------------- the estimator's replies
\* ai.models.generateContent rejects, or JSON.parse throws
EstimateFails ==
    /\ pc = "estimating" /\ outstanding > 0
    /\ \E e \in EstimatorErrors :
          /\ thrown' = e
          /\ Rejected(e)
    /\ outstanding' = outstanding - 1
    /\ UNCHANGED << results, req, pass, frames, previewFrame, extracted, vectorFields >>
    /\ UNCHANGED << estCalls, replies, statusLog >>
    /\ UNCHANGED << videoVars, trimVars >>
    /\ UNCHANGED viewVars

\* The reply arrives: length check and reshape, then the loop goes on.
EstimateReturns ==
    /\ pc = "estimating" /\ outstanding > 0
    /\ \E p \in Patterns, len \in ReplyLengths(req.gridWidth, req.gridHeight) :
        LET vf == VectorFieldOf(FlatVectors(p, len), req.gridWidth, req.gridHeight)
        IN  /\ replies' = Append(replies, [pattern |-> p, len |-> len])
            /\ IF ~vf.ok
               THEN /\ Rejected(vf.message)
                    /\ outstanding' = outstanding - 1
                    /\ UNCHANGED << results, vectorFields, estCalls, statusLog >>
               ELSE /\ vectorFields' = Append(vectorFields, vf.grid)
                    /\ ContinueLoop(extracted.frames, Append(vectorFields, vf.grid),
                                    statusLog, outstanding - 1)
    /\ UNCHANGED << req, pass, frames, previewFrame, extracted, thrown >>
    /\ UNCHANGED << videoVars, trimVars >>
    /\ ViewFollows

\* ---------------------------------------------------------- specification
\* The application before a request; the trimmer's state is one the sliders
\* can produce once the metadata has loaded:
\* 0 <= startTime < endTime <= duration, at most the maximal clip.
InitIdle ==
    /\ isLoading = FALSE
    /\ statusMessage = StEmpty
    /\ results = Null
    /\ error = Null
    /\ isDrawing = FALSE
    /\ startPos = [x |-> 0, y |-> 0]
    /\ currentRect = Null
    /\ GRID_WIDTH \in GridWidthBuilds
    /\ vectorDensity = GRID_WIDTH \div 2
    /\ arrowScale = 10
    /\ images = {}
    /\ canvas = Null
    /\ renderCount = 0
    /\ mapped = Null
    /\ sampled = Null
    /\ streamline = Null
    /\ currentTime = 0
    /\ seeking = FALSE
    /\ stalled = FALSE
    /\ listeners = {}
    /\ pc = "idle"
    /\ req = Null
    /\ pass = "none"
    /\ frames = << >>
    /\ previewFrame = Null
    /\ extracted = Null
    /\ vectorFields = << >>
    /\ estCalls = << >>
    /\ replies = << >>
    /\ outstanding = 0
    /\ thrown = Null
    /\ statusLog = << >>

\* A loaded video and the settings chosen before the calculation
InitSettings ==
    /\ videoSrc = 1
    /\ duration = MaxDuration
    /\ roi \in Rois
    /\ gridWidth \in 1..MaxGridWidth
    /\ gridHeight \in 1..MaxGridHeight

Init ==
    /\ InitIdle
    /\ InitSettings
    /\ startTime \in SliderPositions(MaxDuration)
    /\ endTime \in SliderPositions(MaxDuration)
    /\ startTime < endTime
    /\ endTime - startTime <= MAX_CLIP_DURATION_S

Next ==
    \/ handleCalculateClick
    \/ SeekedCapture
    \/ SeekedPreviewDone
    \/ SeekedFramesDone
    \/ SeekStalls
    \/ EstimateFails
    \/ EstimateReturns

Spec == Init /\ [][Next]_vars

\* ------------------------------------------------------------------ claims
\* The events the browser and the estimator deliver on their own: a seek that
\* is not stalled completes, a call to the estimator settles.
Progress ==
    \/ SeekedCapture
    \/ SeekedPreviewDone
    \/ SeekedFramesDone
    \/ EstimateFails
    \/ EstimateReturns

FairSpec == Spec /\ WF_vars(Progress)

\* calculateFlowAndGenerateFiles as an exported function: startTime is any
\* number, here also one sampling interval before the start of the media.
ApiStartTimes == {-SampleInterval} \cup SliderPositions(MaxDuration)

calculateFlowAndGenerateFiles ==
    /\ ~isLoading
    /\ \E s \in ApiStartTimes, e \in SliderPositions(MaxDuration) :
          /\ TSub(e, s) > 0 /\ TSub(e, s) <= MAX_CLIP_DURATION_S
          /\ handleCalculation(s, e)

\* The trimmer as handleLoadedMetadata leaves it
InitApi ==
    /\ InitIdle
    /\ InitSettings
    /\ startTime = 0
    /\ endTime = Min(duration, MAX_CLIP_DURATION_S)

NextApi ==
    \/ calculateFlowAndGenerateFiles
    \/ SeekedCapture
    \/ SeekedPreviewDone
    \/ SeekedFramesDone
    \/ SeekStalls
    \/ EstimateFails
    \/ EstimateReturns

SpecApi == InitApi /\ [][NextApi]_vars

InFlight == pc \in {"extracting", "estimating"}

\* C1: a request ends either resolved with a grid averaged over all
\* frames.length-1 pairs, or rejected with an error and no result; nothing is
\* stored while it runs; and when an estimator call throws, the request is
\* rejected with that very error, no later pair is estimated and the result
\* stays null.
C1_AllOrNothing ==
    /\ InFlight => results = Null /\ error = Null
    /\ pc = "resolved" =>
          /\ results # Null /\ error = Null
          /\ Len(vectorFields) = Len(extracted.frames) - 1
          /\ Len(estCalls) = Len(extracted.frames) - 1
          /\ results.vectorField = AveragedField(vectorFields, req.gridWidth, req.gridHeight)
    /\ pc = "rejected" => results = Null /\ error # Null
    /\ thrown # Null =>
          /\ pc = "rejected"
          /\ error = thrown
          /\ results = Null
          /\ Len(estCalls) = Len(vectorFields) + 1
          /\ outstanding = 0

\* An estimator call has thrown while later pairs were still to be estimated.
C1_Witness ==
    /\ thrown # Null
    /\ Len(vectorFields) >= 1
    /\ Len(estCalls) < Len(extracted.frames) - 1

\* C2: when the ROI extraction yields fewer than 2 frames, the request is
\* rejected with the insufficient-frames message, the estimator has not been
\* called, and no grid and no files exist.
C2_InsufficientFrames ==
    (extracted # Null /\ Len(extracted.frames) < 2) =>
        /\ pc = "rejected"
        /\ error = MsgNotEnoughFrames
        /\ estCalls = << >>
        /\ vectorFields = << >>
        /\ results = Null

\* The ROI extraction of a clip shorter than one sampling interval has ended.
C2_Witness ==
    /\ extracted # Null
    /\ Len(extracted.frames) = 1
    /\ req.endTime - req.startTime < SampleInterval

\* C3: a reply whose length is not gridWidth*gridHeight rejects the request
\* with the malformed-estimate message carrying the expected and the actual
\* count; that reply is the last one (no retry, no further call) and no grid
\* is built from it.
C3_MalformedEstimate ==
    \A k \in 1..Len(replies) :
        replies[k].len # req.gridWidth * req.gridHeight =>
            /\ k = Len(replies)
            /\ pc = "rejected"
            /\ error = MsgMalformed(req.gridWidth * req.gridHeight, replies[k].len)
            /\ Len(estCalls) = k
            /\ Len(vectorFields) = k - 1
            /\ outstanding = 0
            /\ results = Null

\* A too long reply for the second pair of a request with more pairs to go.
C3_Witness ==
    /\ Len(replies) = 2
    /\ replies[2].len = req.gridWidth * req.gridHeight + 1
    /\ Len(extracted.frames) > 3

\* C4: the estimator is called on (frames[i], frames[i+1]) for i = 0, 1, ...
\* in this order, a call is issued only when every earlier call has returned
\* (at most one is outstanding), and a resolved request made exactly
\* frames.length-1 calls.
C4_SequentialPairs ==
    /\ outstanding \in {0, 1}
    /\ Len(estCalls) = Len(replies) + (IF thrown # Null THEN 1 ELSE 0) + outstanding
    /\ \A k \in 1..Len(estCalls) :
          /\ estCalls[k].i = k - 1
          /\ estCalls[k].frame1 = extracted.frames[k]
          /\ estCalls[k].frame2 = extracted.frames[k + 1]
          /\ k <= Len(extracted.frames) - 1
    /\ pc = "resolved" => Len(estCalls) = Len(extracted.frames) - 1

\* A request over 4 frames has resolved after its 3 calls.
C4_Witness ==
    /\ pc = "resolved"
    /\ Len(extracted.frames) = 4
    /\ Len(estCalls) = 3

\* The sum of one component of one cell over the first k per-pair grids
RECURSIVE CellSum(_, _, _, _, _)
CellSum(fields, k, y, x, c) ==
    IF k = 0 THEN 0
    ELSE FAdd(CellSum(fields, k - 1, y, x, c), fields[k][y][x][c])

\* C5: every cell of the returned grid holds, in u and in v, the sum of that
\* same cell over all per-pair grids divided by the number of pairs
\* (frames.length-1); no other cell enters its value.
C5_CellwiseMean ==
    pc = "resolved" =>
        /\ Len(vectorFields) = Len(extracted.frames) - 1
        /\ DOMAIN results.vectorField = 1..req.gridHeight
        /\ \A y \in 1..req.gridHeight :
              /\ DOMAIN results.vectorField[y] = 1..req.gridWidth
              /\ \A x \in 1..req.gridWidth : \A c \in {"u", "v"} :
                    results.vectorField[y][x][c] =
                        FDiv(CellSum(vectorFields, Len(vectorFields), y, x, c),
                             Len(vectorFields))

\* A mean over two different per-pair grids of more than one cell.
C5_Witness ==
    /\ pc = "resolved"
    /\ Len(vectorFields) = 2
    /\ vectorFields[1] # vectorFields[2]
    /\ req.gridWidth * req.gridHeight > 1

\* Every reply of the request is the estimate of pattern p.
ConstantEstimate(p) ==
    /\ Len(replies) >= 1
    /\ \A k \in 1..Len(replies) : replies[k].pattern = p

\* The grid G of pattern p
ConstantGrid(p) ==
    Reshape(FlatVectors(p, req.gridWidth * req.gridHeight),
            req.gridWidth, req.gridHeight)

C7_StalledSeekFails == (stalled /\ pc = "extracting") ~> (pc = "rejected")

\* C8: the k-th frame captured by a pass of extractFrames is at position
\* startTime + (k-1)/30, every timestamp lies in [startTime, endTime) of the
\* pass, and the timestamps are strictly increasing.
C8_FrameTimestamps ==
    \A k \in 1..Len(frames) :
        /\ frames[k].t = req.startTime + (k - 1) * SampleInterval
        /\ frames[k].t >= req.startTime
        /\ frames[k].t < PassEnd(pass, req)
        /\ k > 1 => frames[k - 1].t < frames[k].t

MouseX == {-5, 0, 1, 2, 40, 100, 105}

MouseY == {-5, 0, 1, 50, 100, 105}

\* The coordinates returned without the clamp
GetRelativeCoordsUnclamped(x, y) == [x |-> x, y |-> y]

\* { x: Math.max(0, Math.min(1, x)), y: Math.max(0, Math.min(1, y)) }
getRelativeCoords(x, y) ==
    [x |-> Max(0, Min(100, x)), y |-> Max(0, Min(100, y))]

handleMouseDown ==
    \E mx \in MouseX, my \in MouseY :
        LET pos == getRelativeCoords(mx, my)
        IN  /\ isDrawing' = TRUE
            /\ startPos' = pos
            /\ currentRect' = [x |-> pos.x, y |-> pos.y, width |-> 0, height |-> 0]
            /\ UNCHANGED << videoSrc, duration, startTime, endTime, roi, gridWidth, gridHeight >>
            /\ UNCHANGED << appVars, videoVars, calcVars, obsVars, viewVars >>

handleMouseMove ==
    /\ isDrawing
    /\ \E mx \in MouseX, my \in MouseY :
        LET currentPos == getRelativeCoords(mx, my)
            newRect == [x |-> Min(startPos.x, currentPos.x),
                        y |-> Min(startPos.y, currentPos.y),
                        width |-> Abs(currentPos.x - startPos.x),
                        height |-> Abs(currentPos.y - startPos.y)]
        IN  currentRect' = newRect
    /\ UNCHANGED << isDrawing, startPos >>
    /\ UNCHANGED << videoSrc, duration, startTime, endTime, roi, gridWidth, gridHeight >>
    /\ UNCHANGED << appVars, videoVars, calcVars, obsVars, viewVars >>

\* currentRect && currentRect.width > 0.01 && currentRect.height > 0.01
LargeEnough(rect) == rect # Null /\ rect.width > 1 /\ rect.height > 1

\* onMouseUp and onMouseLeave
handleMouseUp ==
    /\ isDrawing' = FALSE
    /\ roi' = IF LargeEnough(currentRect) THEN currentRect ELSE roi
    /\ currentRect' = Null
    /\ UNCHANGED << videoSrc, duration, startTime, endTime, gridWidth, gridHeight, startPos >>
    /\ UNCHANGED << appVars, videoVars, calcVars, obsVars, viewVars >>

\* The Clear ROI button: onClick={() => setRoi(null)} disabled={!roi}
clearRoi ==
    /\ roi # Null
    /\ roi' = Null
    /\ UNCHANGED << videoSrc, duration, startTime, endTime, gridWidth, gridHeight >>
    /\ UNCHANGED << isDrawing, startPos, currentRect >>
    /\ UNCHANGED << appVars, videoVars, calcVars, obsVars, viewVars >>

\* The app after a video has loaded: no ROI, the default grid
InitRoi ==
    /\ InitIdle
    /\ videoSrc = 1
    /\ duration = MaxDuration
    /\ startTime = 0
    /\ endTime = Min(duration, MAX_CLIP_DURATION_S)
    /\ roi = Null
    /\ gridWidth = MaxGridWidth
    /\ gridHeight = MaxGridHeight

NextRoi ==
    \/ handleMouseDown
    \/ handleMouseMove
    \/ handleMouseUp
    \/ clearRoi

RoiSpec == InitRoi /\ [][NextRoi]_vars

\* C11: after any sequence of mouse down / move / up / leave events every
\* committed ROI has x, y, width and height in [0,1], x+width <= 1 and
\* y+height <= 1.
C11_RoiInUnitSquare ==
    roi # Null =>
        /\ roi.x \in 0..100 /\ roi.y \in 0..100
        /\ roi.width \in 0..100 /\ roi.height \in 0..100
        /\ roi.x + roi.width <= 100
        /\ roi.y + roi.height <= 100

\* A drag begun outside the overlay's right and bottom edges and ended
\* outside its left and top edges has been committed: the full frame.
C11_Witness ==
    /\ ~isDrawing
    /\ roi = [x |-> 0, y |-> 0, width |-> 100, height |-> 100]
    /\ startPos = [x |-> 100, y |-> 100]

\* C12: a drag that ends with a rectangle whose width or height is at most
\* 0.01 leaves no ROI in effect, whatever ROI was set before it.
C12_DegenerateDragClearsRoi ==
    [][(isDrawing /\ ~isDrawing' /\ ~LargeEnough(currentRect)) => roi' = Null]_vars

\* ------------------------------------------------- VideoTrimmer sliders
\* video.duration of the loaded video: shorter and longer than the maximal clip
VideoDurations == {TRound(900), TRound(2560)}

\* The values of a range input with min 0, max d and step 0.01, as parseFloat
\* gives them: some of the multiples of 0.01 up to d.
SliderValues(d) ==
    {TRound(t) : t \in {p \in {0, 3, 300, 930, 1500, 2430, 2550} :
                            p <= d /\ p % SliderStep = 0}}

\* handleLoadedMetadata with video.duration = videoDuration; duration = 0
\* stands for a video whose metadata has not loaded yet.
LoadedMetadata(videoDuration) ==
    /\ duration = 0
    /\ duration' = videoDuration
    /\ startTime' = 0
    /\ endTime' = Min(videoDuration, MAX_CLIP_DURATION_S)
    /\ UNCHANGED << videoSrc, roi, gridWidth, gridHeight, isDrawing, startPos, currentRect >>
    /\ UNCHANGED << appVars, videoVars, calcVars, obsVars, viewVars >>

handleLoadedMetadata == \E videoDuration \in VideoDurations : LoadedMetadata(videoDuration)

handleStartTimeChange ==
    /\ \E newStart \in SliderValues(duration) :
          /\ newStart < endTime
          /\ startTime' = newStart
          /\ endTime' = IF TSub(endTime, newStart) > MAX_CLIP_DURATION_S
                        THEN Min(duration, TAdd(newStart, MAX_CLIP_DURATION_S))
                        ELSE endTime
    /\ UNCHANGED << videoSrc, duration, roi, gridWidth, gridHeight >>
    /\ UNCHANGED << isDrawing, startPos, currentRect >>
    /\ UNCHANGED << appVars, videoVars, calcVars, obsVars, viewVars >>

handleEndTimeChange ==
    /\ \E newEnd \in SliderValues(duration) :
          /\ newEnd > startTime
          /\ endTime' = newEnd
          /\ startTime' = IF TSub(newEnd, startTime) > MAX_CLIP_DURATION_S
                          THEN Max(0, TSub(newEnd, MAX_CLIP_DURATION_S))
                          ELSE startTime
    /\ UNCHANGED << videoSrc, duration, roi, gridWidth, gridHeight >>
    /\ UNCHANGED << isDrawing, startPos, currentRect >>
    /\ UNCHANGED << appVars, videoVars, calcVars, obsVars, viewVars >>

\* The trimmer mounted on a new video, before its metadata has loaded
InitTrim ==
    /\ InitIdle
    /\ videoSrc = 1
    /\ duration = 0
    /\ startTime = 0
    /\ endTime = 0
    /\ roi = Null
    /\ gridWidth = MaxGridWidth
    /\ gridHeight = MaxGridHeight

NextTrim ==
    \/ handleLoadedMetadata
    \/ handleStartTimeChange
    \/ handleEndTimeChange
    \/ handleCalculateClick

TrimSpec == InitTrim /\ [][NextTrim]_vars

\* C13: once the metadata has loaded, under any sequence of slider changes
\* 0 <= startTime < endTime <= duration and endTime - startTime <=
\* MAX_CLIP_DURATION_S hold in every state, and a calculation is only
\* started with a clip duration in (0, MAX_CLIP_DURATION_S].
C13_ClipWithinLimits ==
    /\ duration > 0 =>
          /\ 0 <= startTime /\ startTime < endTime /\ endTime <= duration
          /\ clipDuration <= MAX_CLIP_DURATION_S
    /\ req # Null =>
          /\ TSub(req.endTime, req.startTime) > 0
          /\ TSub(req.endTime, req.startTime) <= MAX_CLIP_DURATION_S

\* ------------------------------------------------------ VectorFieldDisplay
\* Math.round(n / d) for n >= 0, d > 0: halves round up.
MathRound(n, d) == (2 * n + d) \div (2 * d)

RECURSIVE SqrtSearch(_, _, _)
SqrtSearch(n, lo, hi) ==
    IF lo >= hi THEN lo
    ELSE LET mid == (lo + hi + 1) \div 2
         IN  IF mid * mid <= n THEN SqrtSearch(n, mid, hi)
             ELSE SqrtSearch(n, lo, mid - 1)

\* Math.sqrt(n): the floating point value nearest to the square root.
FSqrt(n) ==
    LET r == SqrtSearch(n, 0, Min(n, 1024))
        sp == SpacingP(r, 1, Precision)
        lower == (r \div sp) * sp
        mid2 == 2 * lower + sp
    IN  IF lower * lower = n THEN lower
        ELSE IF 4 * n < mid2 * mid2 THEN lower
        ELSE IF 4 * n > mid2 * mid2 THEN lower + sp
        ELSE IF (r \div sp) % 2 = 0 THEN lower ELSE lower + sp

\* Math.sqrt(vec.u * vec.u + vec.v * vec.v)
Magnitude(vec) ==
    FSqrt(FAdd(FRound(vec.u * vec.u, 1), FRound(vec.v * vec.v, 1)))

\* The value 1 of velocities, in quanta
VelocityOne == 16

\* The value 1 of a normalized magnitude: fractions are held in 64ths
RatioOne == 64

\* magnitude < 1e-6: 1e-6 is below the smallest positive velocity of the
\* number format used here, so only a zero magnitude is below it.
NearZero(magnitude) == magnitude < 1

FieldHeight(field) == Len(field)

FieldWidth(field) == Len(field[1])

\* The cells of a grid, counted from 0 as in the loops
Cells(field) == (0..(FieldWidth(field) - 1)) \X (0..(FieldHeight(field) - 1))

VecAt(field, c) == field[c[2] + 1][c[1] + 1]

\* The maximum found by the first pair of loops, without the replacement
MaxMagnitudeFound(field) ==
    LET mags == {Magnitude(VecAt(field, c)) : c \in Cells(field)} \cup {0}
    IN  CHOOSE m \in mags : \A k \in mags : k <= m

\* The maximum without the replacement of 0 by 1
MaxMagnitudeNoDefault(field) == MaxMagnitudeFound(field)

\* let maxMagnitude = 0; ... if (maxMagnitude === 0) maxMagnitude = 1
MaxMagnitude(field) ==
    IF MaxMagnitudeFound(field) = 0 THEN VelocityOne ELSE MaxMagnitudeFound(field)

\* const step = Math.max(1, Math.round(GRID_WIDTH / density))
Step(density) == Max(1, MathRound(GRID_WIDTH, density))

\* The cells the pair of loops with y += step, x += step visits, in order
VisitedCells(field, step) ==
    LET nx == (FieldWidth(field) + step - 1) \div step
        ny == (FieldHeight(field) + step - 1) \div step
    IN  [k \in 1..(nx * ny) |->
            << ((k - 1) % nx) * step, ((k - 1) \div nx) * step >>]

\* Math.atan2(v, u), by the direction it stands for
Atan2(v, u) ==
    IF v = 0 THEN (IF u >= 0 THEN "0" ELSE "pi")
    ELSE IF u = 0 THEN (IF v > 0 THEN "pi/2" ELSE "-pi/2")
    ELSE IF v > 0 THEN (IF u > 0 THEN "(0,pi/2)" ELSE "(pi/2,pi)")
    ELSE (IF u > 0 THEN "(-pi/2,0)" ELSE "(-pi,-pi/2)")

\* The arrow of one cell: its centre as fractions of the canvas width and
\* height, its colour, rotation and length (in 640ths of the smaller cell
\* side times 0.9 * scale).
Arrow(field, c, maxMagnitude, scale) ==
    LET vec == VecAt(field, c)
        normalizedMagnitude == FRound(Magnitude(vec) * RatioOne, maxMagnitude)
    IN  [op |-> "arrow", x |-> c[1], y |-> c[2],
         centerX |-> [num |-> 2 * c[1] + 1, den |-> 2 * FieldWidth(field)],
         centerY |-> [num |-> 2 * c[2] + 1, den |-> 2 * FieldHeight(field)],
         normalizedMagnitude |-> normalizedMagnitude,
         hue |-> 240 * RatioOne - normalizedMagnitude * 240,
         angle |-> Atan2(vec.v, vec.u),
         length |-> normalizedMagnitude * 9 * scale]

\* An arrow drawn without ctx.restore()
ArrowRestoreMissing == << >>

\* ctx.restore() after the arrow head
ArrowRestore == << [op |-> "restore"] >>

\* ctx.save(); ctx.translate; ctx.rotate; stroke; fill; ctx.restore()
ArrowOps(field, c, maxMagnitude, scale) ==
    << [op |-> "save"], Arrow(field, c, maxMagnitude, scale) >> \o ArrowRestore

\* The operations of the visited cells i..j, in the order of the loops
RECURSIVE FieldOps(_, _, _, _, _, _)
FieldOps(field, cells, i, j, maxMagnitude, scale) ==
    IF i > j THEN << >>
    ELSE IF i = j
    THEN IF NearZero(Magnitude(VecAt(field, cells[i]))) THEN << >>
         ELSE ArrowOps(field, cells[i], maxMagnitude, scale)
    ELSE LET mid == (i + j) \div 2
         IN  FieldOps(field, cells, i, mid, maxMagnitude, scale) \o
             FieldOps(field, cells, mid + 1, j, maxMagnitude, scale)

\* What img.onload draws, in order
Drawing(img) ==
    LET field == img.vectorField
        cells == VisitedCells(field, Step(img.density))
    IN  << [op |-> "drawImage", image |-> img.backgroundImage] >> \o
        (IF Len(field) > 0 /\ Len(field[1]) > 0
         THEN FieldOps(field, cells, 1, Len(cells), MaxMagnitude(field), img.scale)
         ELSE << >>) \o
        << [op |-> "drawLegend"] >>

\* The arrows of a drawing
Arrows(ops) == {ops[k] : k \in {j \in 1..Len(ops) : ops[j].op = "arrow"}}

\* The drawing context, a stack of saved transforms and the current
\* transform, after one operation
CtxStep(c, o) ==
    IF o.op = "save"
    THEN [stack |-> Append(c.stack, c.transform), transform |-> c.transform]
    ELSE IF o.op = "arrow"
    THEN [stack |-> c.stack, transform |-> "moved"]
    ELSE IF o.op = "restore" /\ Len(c.stack) > 0
    THEN [stack |-> SubSeq(c.stack, 1, Len(c.stack) - 1),
          transform |-> c.stack[Len(c.stack)]]
    ELSE c

\* The context after operations i..j applied in order from context c (the
\* first half is computed before the second half starts from its result)
RECURSIVE CtxRun(_, _, _, _)
CtxRun(ops, i, j, c) ==
    IF i > j THEN c
    ELSE IF i = j THEN CtxStep(c, ops[i])
    ELSE LET mid == (i + j) \div 2
             left == CtxRun(ops, i, mid, c)
         IN  IF left = c THEN CtxRun(ops, mid + 1, j, c)
             ELSE CtxRun(ops, mid + 1, j, left)

\* The context after the first k operations of a drawing
CtxAfter(ops, k) ==
    CtxRun(ops, 1, k, [stack |-> << >>, transform |-> "identity"])

\* The density slider: min 4, max GRID_WIDTH
DensityValues == {d \in {4, 5, 10, 20} : d <= GRID_WIDTH}

\* The scale slider: min 0.2, max 3, step 0.1, in tenths
ScaleValues == {10, 30}

\* The effect of VectorFieldDisplay after a change of its props
RunEffect(density, scale) ==
    /\ renderCount < MaxRenders
    /\ renderCount' = renderCount + 1
    /\ images' = images \cup {ImageOf(renderCount + 1, results, density, scale)}
    /\ UNCHANGED << canvas, GRID_WIDTH, mapped, sampled, streamline >>

setVectorDensity ==
    /\ results # Null
    /\ \E d \in DensityValues \ {vectorDensity} :
          /\ vectorDensity' = d
          /\ RunEffect(d, arrowScale)
    /\ UNCHANGED arrowScale
    /\ UNCHANGED << appVars, trimVars, videoVars, calcVars, obsVars >>

setArrowScale ==
    /\ results # Null
    /\ \E sc \in ScaleValues \ {arrowScale} :
          /\ arrowScale' = sc
          /\ RunEffect(vectorDensity, sc)
    /\ UNCHANGED vectorDensity
    /\ UNCHANGED << appVars, trimVars, videoVars, calcVars, obsVars >>

\* img.onload of one of the pending images: canvas.width = ... clears the
\* canvas, then the drawing of that render replaces what was shown.
imgOnload ==
    /\ \E img \in images :
          /\ canvas' = img
          /\ images' = images \ {img}
    /\ UNCHANGED << GRID_WIDTH, vectorDensity, arrowScale, renderCount, mapped,
                    sampled, streamline >>
    /\ UNCHANGED << appVars, trimVars, videoVars, calcVars, obsVars >>

\* img.onerror: console.error only
imgOnerror ==
    /\ \E img \in images : images' = images \ {img}
    /\ UNCHANGED << GRID_WIDTH, vectorDensity, arrowScale, renderCount, canvas,
                    mapped, sampled, streamline >>
    /\ UNCHANGED << appVars, trimVars, videoVars, calcVars, obsVars >>

\* Averaged fields handed to the display: slow and fast cells with some at
\* rest, 10 and 40 cells wide, a field at rest, and an empty field.
MixedField(w, h) ==
    [y \in 1..h |-> [x \in 1..w |->
        [u |-> 4 * ((x + y) % 3), v |-> -3 * ((x - 1) % 2)]]]

RenderFields == {MixedField(10, 2), MixedField(40, 2), ZeroField(10, 2), << >>}

RenderResult(field) ==
    [vectorField |-> field,
     openFoamFiles |-> Null,
     previewFrame |-> PreviewUrl(<< FrameData(0, Null) >>)]

\* The app showing the results of a calculation: the display is mounted and
\* its first image is loading.
InitRender ==
    /\ isLoading = FALSE
    /\ statusMessage = StEmpty
    /\ results \in {RenderResult(f) : f \in RenderFields}
    /\ error = Null
    /\ videoSrc = 1
    /\ duration = MaxDuration
    /\ startTime = 0
    /\ endTime = Min(duration, MAX_CLIP_DURATION_S)
    /\ roi \in Rois
    /\ gridWidth = MaxGridWidth
    /\ gridHeight = MaxGridHeight
    /\ isDrawing = FALSE
    /\ startPos = [x |-> 0, y |-> 0]
    /\ currentRect = Null
    /\ currentTime = 0
    /\ seeking = FALSE
    /\ stalled = FALSE
    /\ listeners = {}
    /\ pc = "resolved"
    /\ req = Null
    /\ pass = "roi"
    /\ frames = << >>
    /\ previewFrame = results.previewFrame
    /\ extracted = Null
    /\ vectorFields = << >>
    /\ estCalls = << >>
    /\ replies = << >>
    /\ outstanding = 0
    /\ thrown = Null
    /\ statusLog = << >>
    /\ GRID_WIDTH \in GridWidthBuilds
    /\ vectorDensity = GRID_WIDTH \div 2
    /\ arrowScale = 10
    /\ images = {ImageOf(1, results, vectorDensity, arrowScale)}
    /\ canvas = Null
    /\ renderCount = 1
    /\ mapped = Null
    /\ sampled = Null
    /\ streamline = Null

NextRender ==
    \/ setVectorDensity
    \/ setArrowScale
    \/ imgOnload
    \/ imgOnerror

RenderSpec == InitRender /\ [][NextRender]_vars

\* C14: the canvas is owned by the most recent render: a drawing of an
\* earlier render request never replaces the drawing of a later one.
C14_LastWriteWins ==
    [][(canvas # Null /\ canvas' # Null /\ canvas' # canvas)
            => canvas'.n > canvas.n]_vars

\* The stride of the claim: max(1, round(gridWidth / density)) with the width
\* of the grid being rendered
StepOfRenderedGrid(field, density) ==
    Max(1, MathRound(FieldWidth(field), density))

\* C15: the arrows drawn are exactly those of the cells at stride
\* max(1, round(gridWidth / density)) from (0,0) in both axes, gridWidth
\* being the width of the rendered grid, whose magnitude is at least 1e-6.
C15_StrideOfRenderedGrid ==
    (canvas # Null /\ Len(canvas.vectorField) > 0) =>
        {<< a.x, a.y >> : a \in Arrows(Drawing(canvas))} =
            {c \in Cells(canvas.vectorField) :
                /\ c[1] % StepOfRenderedGrid(canvas.vectorField, canvas.density) = 0
                /\ c[2] % StepOfRenderedGrid(canvas.vectorField, canvas.density) = 0
                /\ ~NearZero(Magnitude(VecAt(canvas.vectorField, c)))}

\* C17: maxMagnitude is the largest norm of the grid, or 1 for a grid at
\* rest, so it is never 0; every normalized magnitude drawn is in [0,1] and
\* every hue in [0,240]; a grid at rest is still drawn (image and legend).
C17_Normalization ==
    (canvas # Null /\ Len(canvas.vectorField) > 0) =>
        LET field == canvas.vectorField
            mags == {Magnitude(VecAt(field, c)) : c \in Cells(field)}
            ops == Drawing(canvas)
        IN  /\ MaxMagnitude(field) > 0
            /\ \A m \in mags : m <= MaxMagnitude(field)
            /\ IF mags = {0} THEN MaxMagnitude(field) = VelocityOne
               ELSE MaxMagnitude(field) \in mags
            /\ \A a \in Arrows(ops) :
                  /\ a.normalizedMagnitude \in 0..RatioOne
                  /\ a.hue \in 0..(240 * RatioOne)
            /\ ops[1].op = "drawImage"
            /\ ops[Len(ops)].op = "drawLegend"

\* A grid at rest has been drawn.
C17_Witness ==
    /\ canvas # Null
    /\ canvas.vectorField = ZeroField(10, 2)

\* C18: with an ROI selected no arrow is anchored outside the ROI's
\* rectangle on the canvas (roi.x * canvasWidth, roi.y * canvasHeight,
\* roi.width * canvasWidth, roi.height * canvasHeight).
C18_ArrowsInsideViewport ==
    (canvas # Null /\ roi # Null) =>
        \A a \in Arrows(Drawing(canvas)) :
            /\ roi.x * a.centerX.den <= 100 * a.centerX.num
            /\ 100 * a.centerX.num <= (roi.x + roi.width) * a.centerX.den
            /\ roi.y * a.centerY.den <= 100 * a.centerY.num
            /\ 100 * a.centerY.num <= (roi.y + roi.height) * a.centerY.den

\* C19: every completed render draws the legend exactly once, as its last
\* operation, with nothing saved on the context's stack and the transform
\* back to the identity; also for an empty grid and a grid at rest.
C19_LegendLast ==
    canvas # Null =>
        LET ops == Drawing(canvas)
        IN  /\ ops[Len(ops)].op = "drawLegend"
            /\ Cardinality({k \in 1..Len(ops) : ops[k].op = "drawLegend"}) = 1
            /\ CtxAfter(ops, Len(ops) - 1) = [stack |-> << >>, transform |-> "identity"]

\* A render with arrows has completed.
C19_Witness ==
    /\ canvas # Null
    /\ Arrows(Drawing(canvas)) # {}

\* ------------------------------------------------------------ end to end
\* Clip lengths that give one, two and three frames
EndToEndClips == {SampleInterval - 1, SampleInterval + 2, 2 * SampleInterval + 1}

\* The application with a 10x10 grid chosen, from the Calculate button to
\* the drawing of the results.
InitEndToEnd ==
    /\ InitIdle
    /\ videoSrc = 1
    /\ duration = MaxDuration
    /\ roi \in Rois
    /\ gridWidth = 10
    /\ gridHeight = 10
    /\ startTime \in {0, SliderStep}
    /\ endTime \in SliderPositions(MaxDuration)
    /\ endTime - startTime \in EndToEndClips

NextEndToEnd ==
    \/ handleCalculateClick
    \/ SeekedCapture
    \/ SeekedPreviewDone
    \/ SeekedFramesDone
    \/ SeekStalls
    \/ EstimateFails
    \/ EstimateReturns
    \/ setVectorDensity
    \/ setArrowScale
    \/ imgOnload
    \/ imgOnerror

EndToEndSpec == InitEndToEnd /\ [][NextEndToEnd]_vars

\* The grid with {u: 1, v: 0} in every cell
UniformGrid(w, h) == [y \in 1..h |-> [x \in 1..w |-> [u |-> VelocityOne, v |-> 0]]]

\* C16: with a 10x10 grid, two frames and an estimate of {u: 1, v: 0} for
\* every cell, the averaged grid is {u: 1, v: 0} everywhere and the drawing at
\* density 10 has 100 arrows, all rotated by angle 0.
C16_EndToEnd ==
    (/\ results # Null
     /\ req.gridWidth = 10 /\ req.gridHeight = 10
     /\ Len(extracted.frames) = 2
     /\ \A k \in 1..Len(replies) : replies[k] = [pattern |-> 3, len |-> 100])
    => /\ results.vectorField = UniformGrid(10, 10)
       /\ (canvas # Null /\ canvas.density = 10) =>
             LET ops == Drawing(canvas)
             IN  /\ Cardinality({k \in 1..Len(ops) : ops[k].op = "arrow"}) = 100
                 /\ \A a \in Arrows(ops) : a.angle = "0"

\* ------------------------------------------------------- geometry mapper
\* toViewport, gridToViewport and viewportToGrid as the specification
\* describes them. Pixel and grid coordinates are JavaScript numbers, held
\* in quanta of 1/GeomOne pixel (cell) with a significand of GeomPrecision
\* bits; ROI fields are hundredths, grid sizes are cell counts.
GeomOne == 4096

\* The number nearest to num/den
GRound(num, den) ==
    IF num < 0
    THEN -RoundToSpacing(-num, den, SpacingP(-num, den, GeomPrecision))
    ELSE RoundToSpacing(num, den, SpacingP(num, den, GeomPrecision))

\* toViewport(roi, canvasWidth, canvasHeight): the full canvas for no ROI,
\* otherwise each ROI field scaled by the canvas dimension
toViewport(r, canvasWidth, canvasHeight) ==
    IF r = Null
    THEN [x |-> 0, y |-> 0, width |-> canvasWidth, height |-> canvasHeight]
    ELSE [x |-> GRound(r.x * canvasWidth, 100),
          y |-> GRound(r.y * canvasHeight, 100),
          width |-> GRound(r.width * canvasWidth, 100),
          height |-> GRound(r.height * canvasHeight, 100)]

\* One axis of gridToViewport: origin + (g / cells) * size
GridToViewportAxis(g, cells, origin, size) ==
    GRound(origin + GRound(GRound(g, cells) * size, GeomOne), 1)

\* One axis of viewportToGrid without the viewport's origin taken off
ViewportToGridAxisNoOrigin(px, cells, origin, size) ==
    GRound(GRound(px * GeomOne, size) * cells, 1)

\* One axis of viewportToGrid: ((px - origin) / size) * cells
ViewportToGridAxis(px, cells, origin, size) ==
    GRound(GRound(GRound(px - origin, 1) * GeomOne, size) * cells, 1)

gridToViewport(gridX, gridY, grid, viewport) ==
    [x |-> GridToViewportAxis(gridX, grid.width, viewport.x, viewport.width),
     y |-> GridToViewportAxis(gridY, grid.height, viewport.y, viewport.height)]

viewportToGrid(x, y, grid, viewport) ==
    [x |-> ViewportToGridAxis(x, grid.width, viewport.x, viewport.width),
     y |-> ViewportToGridAxis(y, grid.height, viewport.y, viewport.height)]

\* ROIs, canvas sizes, grids and grid-space points (quarter cells along x,
\* half cells along y) given to the mapper
GeomRois == Rois \cup {[x |-> 33, y |-> 20, width |-> 34, height |-> 45]}

CanvasSizes ==
    {[width |-> 5 * GeomOne, height |-> 3 * GeomOne],
     [width |-> 8 * GeomOne, height |-> 6 * GeomOne]}

Grids == {[width |-> 2, height |-> 2], [width |-> 3, height |-> 2]}

GridPoints(grid) ==
    {[x |-> GRound(i * GeomOne, 4), y |-> GRound(j * GeomOne, 2)] :
        i \in 0..(4 * grid.width), j \in 0..(2 * grid.height)}

\* A point is mapped to the viewport and back (one call is followed)
mapRoundTrip ==
    /\ mapped = Null
    /\ \E r \in GeomRois, size \in CanvasSizes, grid \in Grids :
        \E p \in GridPoints(grid) :
            LET viewport == toViewport(r, size.width, size.height)
                pixel == gridToViewport(p.x, p.y, grid, viewport)
            IN  mapped' = [roi |-> r, canvas |-> size, grid |-> grid,
                           viewport |-> viewport, p |-> p, pixel |-> pixel,
                           back |-> viewportToGrid(pixel.x, pixel.y, grid, viewport)]
    /\ UNCHANGED << GRID_WIDTH, vectorDensity, arrowScale, images, canvas, renderCount,
                    sampled, streamline >>
    /\ UNCHANGED << appVars, trimVars, videoVars, calcVars, obsVars >>

InitGeometry ==
    /\ InitIdle
    /\ InitSettings
    /\ startTime = 0
    /\ endTime = Min(duration, MAX_CLIP_DURATION_S)

NextGeometry == mapRoundTrip

GeometrySpec == InitGeometry /\ [][NextGeometry]_vars

\* The claim as stated: the round trip returns the point itself.
C20_AsStated ==
    mapped # Null => mapped.back = mapped.p

\* One coordinate b of the round trip is within floating point tolerance of
\* the coordinate a it started from: the error is at most four units in the
\* last place of a and of the pixel coordinate, the latter scaled from the
\* viewport (origin, size) back to the grid of the given cell count.
WithinTolerance(b, a, cells, origin, size) ==
    Abs(b - a) * Pow2(GeomPrecision) <=
        4 * (a + ((origin + size) * cells * GeomOne) \div size + 1)

\* C20: for every ROI (or none), canvas size, grid and grid-space point,
\* viewportToGrid(gridToViewport(p)) over the viewport toViewport(r, w, h)
\* is p up to floating point tolerance.
C20_RoundTripWithinTolerance ==
    mapped # Null =>
        /\ WithinTolerance(mapped.back.x, mapped.p.x, mapped.grid.width,
                           mapped.viewport.x, mapped.viewport.width)
        /\ WithinTolerance(mapped.back.y, mapped.p.y, mapped.grid.height,
                           mapped.viewport.y, mapped.viewport.height)

\* A point inside a selected ROI's viewport has been mapped there and back,
\* and came back changed.
C20_Witness ==
    /\ mapped # Null
    /\ mapped.roi # Null
    /\ mapped.p.x > 0 /\ mapped.p.y > 0
    /\ mapped.back # mapped.p

\* ------------------------------------------------ bilinear field sampler
\* sample(position, grid) as the specification describes it. Positions are
\* in quanta of 1/GeomOne cell; velocities and weights are numbers with a
\* significand of GeomPrecision bits.
\* The epsilon of the clamp (1/16 cell; the specification leaves it open,
\* it is larger than the spacing of the positions it is taken from)
SampleEpsilon == 256

\* The clamp without the epsilon
ClampToLastCell(pos, size) == Max(0, Min(pos, (size - 1) * GeomOne))

\* Clamp of one coordinate to [0, size-1-epsilon]
ClampPosition(pos, size) ==
    Max(0, Min(pos, GRound((size - 1) * GeomOne - SampleEpsilon, 1)))

\* a * w for a weight w in [0,1]
GWeigh(a, w) == GRound(a * w, GeomOne)

\* v00(1-wx)(1-wy) + v01 wx(1-wy) + v10(1-wx)wy + v11 wx wy, one component
Blend(v00, v01, v10, v11, wx, wy) ==
    LET t00 == GWeigh(GWeigh(v00, GeomOne - wx), GeomOne - wy)
        t01 == GWeigh(GWeigh(v01, wx), GeomOne - wy)
        t10 == GWeigh(GWeigh(v10, GeomOne - wx), wy)
        t11 == GWeigh(GWeigh(v11, wx), wy)
    IN  GRound(GRound(GRound(t00 + t01, 1) + t10, 1) + t11, 1)

\* The velocity read at a cell; a cell outside the grid holds none
ReadCell(grid, c) ==
    IF c \in Cells(grid) THEN VecAt(grid, c) ELSE [u |-> 0, v |-> 0]

sample(position, grid) ==
    IF FieldHeight(grid) < 2 \/ FieldWidth(grid) < 2
    THEN [error |-> "InvalidGridError"]
    ELSE LET x == ClampPosition(position.x, FieldWidth(grid))
             y == ClampPosition(position.y, FieldHeight(grid))
             x0 == x \div GeomOne
             y0 == y \div GeomOne
             wx == x - x0 * GeomOne
             wy == y - y0 * GeomOne
             v00 == ReadCell(grid, << x0, y0 >>)
             v01 == ReadCell(grid, << x0 + 1, y0 >>)
             v10 == ReadCell(grid, << x0, y0 + 1 >>)
             v11 == ReadCell(grid, << x0 + 1, y0 + 1 >>)
         IN  [velocity |-> [u |-> Blend(v00.u, v01.u, v10.u, v11.u, wx, wy),
                            v |-> Blend(v00.v, v01.v, v10.v, v11.v, wx, wy)],
              reads |-> {<< x0, y0 >>, << x0 + 1, y0 >>,
                         << x0, y0 + 1 >>, << x0 + 1, y0 + 1 >>}]

\* Grids with cells at rest and moving cells
SampleField(w, h) ==
    [y \in 1..h |-> [x \in 1..w |->
        [u |-> 256 * ((x + y) % 3), v |-> -192 * ((x - 1) % 2)]]]

SampleFields == {SampleField(2, 2), SampleField(3, 2), SampleField(2, 3), SampleField(1, 2)}

\* Positions at cells, between cells and outside the grid, in half cells
SamplePositions(grid) ==
    {[x |-> (i * GeomOne) \div 2, y |-> (j * GeomOne) \div 2] :
        i \in (-1)..(2 * FieldWidth(grid)), j \in (-1)..(2 * FieldHeight(grid))}

\* One call of the sampler is followed
samplePoint ==
    /\ sampled = Null
    /\ \E grid \in SampleFields :
        \E position \in SamplePositions(grid) :
            sampled' = [grid |-> grid, position |-> position,
                        result |-> sample(position, grid)]
    /\ UNCHANGED << GRID_WIDTH, vectorDensity, arrowScale, images, canvas, renderCount,
                    mapped, streamline >>
    /\ UNCHANGED << appVars, trimVars, videoVars, calcVars, obsVars >>

NextSampler == samplePoint

SamplerSpec == InitGeometry /\ [][NextSampler]_vars

\* The sampler was called on a grid of at least 2x2 cells at the integer
\* grid coordinate (x, y) inside the grid
SampledAtCell(x, y) ==
    /\ sampled # Null
    /\ FieldWidth(sampled.grid) >= 2 /\ FieldHeight(sampled.grid) >= 2
    /\ << x, y >> \in Cells(sampled.grid)
    /\ sampled.position = [x |-> x * GeomOne, y |-> y * GeomOne]

Spread(grid) ==
    LET us == {VecAt(grid, c).u : c \in Cells(grid)}
        vs == {VecAt(grid, c).v : c \in Cells(grid)}
        Width(S) == CHOOSE d \in {a - b : a \in S, b \in S} :
                        \A a \in S, b \in S : a - b <= d
    IN  Max(Width(us), Width(vs))

Largest(grid) ==
    LET ms == {Abs(VecAt(grid, c).u) : c \in Cells(grid)} \cup
              {Abs(VecAt(grid, c).v) : c \in Cells(grid)}
    IN  CHOOSE m \in ms : \A k \in ms : k <= m

\* b is a within the share epsilon of the neighbours in each axis, and the
\* roundings of the blend
NearCell(b, a, grid) ==
    Abs(b - a) * GeomOne * Pow2(GeomPrecision) <=
        2 * SampleEpsilon * Spread(grid) * Pow2(GeomPrecision)
        + 4 * Largest(grid) * GeomOne

MaxStreamlineSteps == 60

\* The fixed step length, 1/16 cell (the specification leaves it open)
StreamStep == 256

\* The bounds check left out
LeftBoundsNever(pos, grid) == FALSE

\* Leaving the bounds of the grid, [0, width-1] x [0, height-1]
LeftBounds(pos, grid) ==
    \/ pos.x < 0 \/ pos.x > (FieldWidth(grid) - 1) * GeomOne
    \/ pos.y < 0 \/ pos.y > (FieldHeight(grid) - 1) * GeomOne

\* The position after a step of fixed length along vec
Advance(pos, vec) ==
    [x |-> pos.x + GRound(vec.u * StreamStep, Magnitude(vec)),
     y |-> pos.y + GRound(vec.v * StreamStep, Magnitude(vec))]

\* Fields for the streamlines: a uniform flow along x and along the diagonal,
\* and a field with cells at rest
UniformField(w, h, vec) == [y \in 1..h |-> [x \in 1..w |-> vec]]

\* A flow along x in the first column, at rest in the others
RestAhead(w, h) ==
    [y \in 1..h |-> [x \in 1..w |-> [u |-> IF x = 1 THEN 256 ELSE 0, v |-> 0]]]

StreamFields ==
    {UniformField(5, 2, [u |-> 256, v |-> 0]),
     UniformField(3, 3, [u |-> 192, v |-> 192]),
     UniformField(2, 2, [u |-> -256, v |-> 0]),
     RestAhead(3, 2),
     SampleField(3, 2)}

\* Seed points, evenly spaced over the grid in half cells
Seeds(grid) ==
    {[x |-> (i * GeomOne) \div 2, y |-> (j * GeomOne) \div 2] :
        i \in 0..(2 * (FieldWidth(grid) - 1)), j \in 0..(2 * (FieldHeight(grid) - 1))}

\* A line starts at a seed
seedLine ==
    /\ streamline = Null
    /\ \E grid \in StreamFields :
        \E seed \in Seeds(grid) :
            streamline' = [grid |-> grid, pos |-> seed, steps |-> 0,
                           status |-> "running", reason |-> "none", samples |-> {}]
    /\ UNCHANGED << GRID_WIDTH, vectorDensity, arrowScale, images, canvas, renderCount,
                    mapped, sampled >>
    /\ UNCHANGED << appVars, trimVars, videoVars, calcVars, obsVars >>

\* One iteration of the integration loop
stepLine ==
    /\ streamline # Null
    /\ streamline.status = "running"
    /\ LET vec == sample(streamline.pos, streamline.grid).velocity
           next == Advance(streamline.pos, vec)
           taken == [streamline EXCEPT !.samples = @ \cup {streamline.pos}]
       IN  IF NearZero(Magnitude(vec))
           THEN streamline' = [taken EXCEPT !.status = "done", !.reason = "nearZero"]
           ELSE IF LeftBounds(next, streamline.grid)
           THEN streamline' = [taken EXCEPT !.pos = next, !.steps = @ + 1,
                                            !.status = "done", !.reason = "left"]
           ELSE IF streamline.steps + 1 >= MaxStreamlineSteps
           THEN streamline' = [taken EXCEPT !.pos = next, !.steps = @ + 1,
                                            !.status = "done", !.reason = "maxSteps"]
           ELSE streamline' = [taken EXCEPT !.pos = next, !.steps = @ + 1]
    /\ UNCHANGED << GRID_WIDTH, vectorDensity, arrowScale, images, canvas, renderCount,
                    mapped, sampled >>
    /\ UNCHANGED << appVars, trimVars, videoVars, calcVars, obsVars >>

NextStreamline ==
    \/ seedLine
    \/ stepLine

StreamlineSpec == InitGeometry /\ [][NextStreamline]_vars

\* A grid-space position within [0, width-1] x [0, height-1]
InsideGrid(pos, grid) ==
    /\ pos.x \in 0..((FieldWidth(grid) - 1) * GeomOne)
    /\ pos.y \in 0..((FieldHeight(grid) - 1) * GeomOne)

\* C22: a streamline takes at most 60 steps; a running line has taken fewer
\* than 60 and stands inside the grid, so its next step ends it or advances
\* it; it ends before 60 steps only on a near-zero sample or on leaving the
\* bounds; and every position sampled lies inside the grid.
C22_StreamlineBounded ==
    streamline # Null =>
        /\ streamline.steps <= MaxStreamlineSteps
        /\ \A pos \in streamline.samples : InsideGrid(pos, streamline.grid)
        /\ streamline.status = "running" =>
              /\ streamline.steps < MaxStreamlineSteps
              /\ InsideGrid(streamline.pos, streamline.grid)
        /\ streamline.status = "done" =>
              \/ /\ streamline.reason = "maxSteps"
                 /\ streamline.steps = MaxStreamlineSteps
              \/ /\ streamline.reason = "left"
                 /\ ~InsideGrid(streamline.pos, streamline.grid)
              \/ /\ streamline.reason = "nearZero"
                 /\ NearZero(Magnitude(sample(streamline.pos, streamline.grid).velocity))

\* A line has run its 60 steps inside the grid
C22_Witness ==
    /\ streamline # Null
    /\ streamline.status = "done"
    /\ streamline.reason = "maxSteps"

\* ------------------------------------------------ the application, go on
\* An extraction pass whose endTime the frame source can reach
ReachablePass(p) ==
    /\ pc = "extracting"
    /\ pass = p
    /\ PassEnd(p, req) <= duration

\* C23: an extraction pass whose endTime is at most the duration, and whose
\* seeks all complete, ends, also when the last position is clamped at the
\* end of the video; it captures at most one frame per 1/30 s of
\* [startTime, endTime).
C23_ExtractionEnds ==
    /\ [](\A p \in {"preview", "roi"} :
            (ReachablePass(p) /\ Len(frames) > 0) =>
                (Len(frames) - 1) * SampleInterval < PassEnd(p, req) - req.startTime)
    /\ \A p \in {"preview", "roi"} :
          ReachablePass(p) ~> (stalled \/ pc # "extracting" \/ pass # p)

\* The ROI pass has ended on the position clamped at the end of the video
C23_Witness ==
    /\ extracted # Null
    /\ Len(extracted.frames) >= 2
    /\ req.endTime = duration
    /\ currentTime = duration
    /\ ~stalled


\* ------------------------------------------ the application, video loads
MaxVideos == 2

\* App.handleVideoLoad(src) with the object URL of a newly chosen file, and
\* what follows from the new src in the same turn: the results display is
\* unmounted, the effect of VideoTrimmer on [src] resets startTime and
\* endTime, and the video element starts loading the new resource, which
\* (HTML media element load algorithm) forgets the old resource's duration,
\* sets the position to 0 and drops a pending seek without a 'seeked' event.
\* isLoading, statusMessage, the calculation under way and the listeners it
\* registered are not touched.
handleVideoLoad ==
    /\ videoSrc < MaxVideos
    /\ videoSrc' = videoSrc + 1
    /\ results' = Null
    /\ error' = Null
    /\ UNCHANGED << isLoading, statusMessage >>
    /\ startTime' = 0
    /\ endTime' = 0
    /\ duration' = 0
    /\ currentTime' = 0
    /\ seeking' = FALSE
    /\ UNCHANGED << stalled, listeners >>
    /\ UNCHANGED << roi, gridWidth, gridHeight, isDrawing, startPos, currentRect >>
    /\ UNCHANGED << calcVars, obsVars >>
    /\ ViewFollows

\* video.duration of the videos loaded later
LaterDurations == {SampleInterval + SliderStep}

handleLoadedMetadataLater == \E videoDuration \in LaterDurations : LoadedMetadata(videoDuration)

\* The times a caller of onCalculate passes
RequestTimes == {0, SliderStep, MaxDuration}

\* onCalculate = handleCalculation called with the element of a loaded video
\* and any clip, valid or not, while no calculation is running
onCalculate ==
    /\ ~isLoading
    /\ duration > 0
    /\ \E s \in RequestTimes, e \in RequestTimes : handleCalculation(s, e)

NextApp ==
    \/ handleVideoLoad
    \/ handleLoadedMetadataLater
    \/ handleCalculateClick
    \/ onCalculate
    \/ SeekedCapture
    \/ SeekedPreviewDone
    \/ SeekedFramesDone
    \/ SeekStalls
    \/ EstimateFails
    \/ EstimateReturns

AppSpec == InitApi /\ [][NextApp]_vars


\* The frames of the pass under way are frames of the request under way:
\* taken inside its clip and cut to the rectangle of the pass.
OwnFrames ==
    \A k \in 1..Len(frames) :
        /\ frames[k].rect = SourceRect(PassRoi(pass, req))
        /\ frames[k].t >= req.startTime
        /\ frames[k].t < PassEnd(pass, req)

\* C24: at most one calculation is in flight: while one runs (also after a
\* new video has been loaded under it) the Calculate button starts no second
\* one, so one pass at a time drives the seeks of the video element, and the
\* frames collected are those of the one request under way.
C24_OneInFlight ==
    /\ InFlight => ~ENABLED handleCalculateClick
    /\ InFlight => isLoading
    /\ pc = "extracting" => OwnFrames

\* A calculation waits for the estimator while a second video has loaded and
\* the trimmer shows a valid clip of it.
C24_Witness ==
    /\ pc = "estimating"
    /\ videoSrc = 2
    /\ isClipValid


\* C25: within a calculation the 'seeked' listener of a pass is registered
\* only while that pass is under way: never two listeners at once, none once
\* the pass has resolved; frames are appended only by the pass whose listener
\* is registered, and the sequence a pass resolved with is not touched by any
\* later seek completion (it is only dropped when the next calculation starts).
C25_ListenerOfPass ==
    /\ [](Cardinality(listeners) <= 1)
    /\ [](\A p \in listeners : pc = "extracting" /\ pass = p)
    /\ [][Len(frames') > Len(frames) =>
              /\ pc = "extracting" /\ pass \in listeners
              /\ pass' = pass /\ listeners' = listeners]_vars
    /\ [][previewFrame # Null => previewFrame' \in {previewFrame, Null}]_vars
    /\ [][extracted # Null => extracted' \in {extracted, Null}]_vars

\* The preview pass has resolved and its listener is gone; the ROI pass has
\* its own listener and has appended two frames; later its sequence is
\* resolved and a reply of the estimator has arrived.
C25_Witness ==
    /\ listeners = {}
    /\ previewFrame # Null
    /\ extracted # Null
    /\ Len(extracted.frames) >= 2
    /\ Len(replies) >= 1


\* The status messages of a successful calculation over n frames, as the
\* claim lists them
ExpectedStatus(n) ==
    << [text |-> "Extracting frames from video..."] >>
    \o [k \in 1..n |-> [text |-> "Extracted frame k...", k |-> k]]
    \o << [text |-> "Analyzing n frame pairs with AI...", n |-> n - 1] >>
    \o [i \in 1..(n - 1) |-> [text |-> "Analyzing frame pair i/n...", i |-> i, n |-> n - 1]]
    \o << [text |-> "Averaging vector fields..."],
          [text |-> "Generating OpenFOAM files..."],
          [text |-> "Finalizing results..."] >>

IsPrefix(a, b) == Len(a) <= Len(b) /\ a = SubSeq(b, 1, Len(a))

PairMessages(log) == {k \in 1..Len(log) : log[k].text = "Analyzing frame pair i/n..."}


\* C26: the preview pass emits no status message; the messages of a
\* calculation are at every moment a beginning of the list
\* 'Extracting frames from video...', 'Extracted frame k...' for k = 1..n,
\* 'Analyzing n-1 frame pairs with AI...', 'Analyzing frame pair i/(n-1)...'
\* for i = 1..n-1, 'Averaging vector fields...', 'Generating OpenFOAM
\* files...', 'Finalizing results...', and the whole list once the
\* calculation has succeeded; the estimator has been called for pair i only
\* when the message of pair i has been emitted.
C26_StatusOrder ==
    /\ (pc = "extracting" /\ pass = "preview") => statusLog = << >>
    /\ (pc = "extracting" /\ pass = "roi") =>
            IsPrefix(statusLog, ExpectedStatus(Len(frames)))
    /\ extracted # Null =>
            IsPrefix(statusLog, ExpectedStatus(Len(extracted.frames)))
    /\ pc = "resolved" => statusLog = ExpectedStatus(Len(extracted.frames))
    /\ Cardinality(PairMessages(statusLog)) = Len(estCalls)

\* A calculation over four frames has succeeded: three pairs were announced
\* and estimated.
C26_Witness ==
    /\ pc = "resolved"
    /\ Len(extracted.frames) = 4
    /\ Len(estCalls) = 3


\* C27: isLoading is true exactly while an accepted calculation is in
\* flight; whenever none is in flight (before the first, and after each has
\* resolved or rejected) isLoading is false and the status message is empty;
\* a request with an invalid clip duration sets the error and changes
\* neither isLoading nor the status message nor anything of the calculator.
C27_LoadingWhileInFlight ==
    /\ [](isLoading <=> InFlight)
    /\ [](~InFlight => statusMessage = StEmpty)
    /\ [][(InFlight /\ ~InFlight') => (~isLoading' /\ statusMessage' = StEmpty)]_vars
    /\ [][(error' = MsgInvalidClip /\ error' # error) =>
              /\ ~isLoading /\ ~isLoading'
              /\ UNCHANGED << statusMessage, results, calcVars, obsVars, videoVars >>]_vars

\* A calculation has resolved, and a request with an invalid clip came after
\* it.
C27_Witness ==
    /\ pc = "resolved"
    /\ error = MsgInvalidClip
    /\ ~isLoading


C29_NoStaleResult ==
    /\ [][videoSrc' # videoSrc => (results' = Null /\ error' = Null)]_vars
    /\ [](results # Null => req.src = videoSrc)
    /\ []((error # Null /\ error # MsgInvalidClip) => req.src = videoSrc)


\* The grid has h rows of w entries, and entry x of row y (both counted from
\* 0) is element y * w + x of the flat list (counted from 0).
RowMajor(grid, flat, w, h) ==
    /\ Len(flat) = w * h
    /\ DOMAIN grid = 1..h
    /\ \A y \in 1..h :
          /\ DOMAIN grid[y] = 1..w
          /\ \A x \in 1..w : grid[y][x] = flat[(y - 1) * w + x]

\* C30: every grid made from a reply of the estimator has gridHeight rows of
\* gridWidth entries with grid[y][x] = flat[y * gridWidth + x]; the U file
\* declares and lists gridWidth * gridHeight vectors, those of the averaged
\* grid in the same row-major order, so that reshaping the U file's list
\* gives the averaged grid back.
C30_RowMajor ==
    /\ \A k \in 1..Len(vectorFields) :
          RowMajor(vectorFields[k], FlatVectors(replies[k].pattern, replies[k].len),
                   req.gridWidth, req.gridHeight)
    /\ results # Null =>
          LET U == results.openFoamFiles.U
          IN  /\ U.numPoints = req.gridWidth * req.gridHeight
              /\ Len(U.vectorList) = U.numPoints
              /\ RowMajor(results.vectorField, U.vectorList,
                          req.gridWidth, req.gridHeight)
              /\ Reshape(U.vectorList, req.gridWidth, req.gridHeight)
                    = results.vectorField

\* A result over a 2x2 grid whose four vectors differ: any other order of
\* the cells would show.
C30_Witness ==
    /\ results # Null
    /\ req.gridWidth = 2 /\ req.gridHeight = 2
    /\ Cardinality({results.vectorField[y][x] : y \in 1..2, x \in 1..2}) = 4

====
